---- MODULE Spec2Model ----
(***************************************************************************)
(* Model of the tecton-quickstarts feature repository: the descriptors the *)
(* Python modules declare (entity, data sources, feature views, feature    *)
(* services), the registry their import builds, and the three kinds of     *)
(* transform bodies (pandas batch/stream transforms, python on-demand      *)
(* transform) run on bounded inputs.                                       *)
(***************************************************************************)
EXTENDS Integers, Sequences, FiniteSets, Bags, TLC

VARIABLES
    registry,     \* names of the descriptor objects created by the imports so far
    usersDf,      \* the DataFrame object the caller passes to user_credit_card_issuer
    issuerOut,    \* outcome of the last user_credit_card_issuer call
    txDf,         \* the DataFrame object passed to the two transaction transforms
    metricsOut,   \* outcome of the last user_transaction_metrics call
    totalsOut,    \* outcome of the last user_transaction_amount_totals call
    log           \* bag of the on-demand invocations made: [request, metrics, out]

vars == <<registry, usersDf, issuerOut, txDf, metricsOut, totalsOut, log>>

\* ------------------------------------------------------------------ bounds

MaxRows == 1      \* rows in an input DataFrame
MaxCalls == 2     \* on-demand invocations recorded

\* ------------------------------------------------------------- timedelta

Minutes(n) == n * 60
Hours(n) == n * 3600
Days(n) == n * 86400
NoInterval == <<>>        \* aggregation_interval not given
Interval(td) == <<td>>

\* ------------------------------------------------------------ descriptors

\* entities.user: the module is imported by every feature view but is not
\* among the source files; name and join key as the specification gives them.
user == [name |-> "user", join_keys |-> <<"user_id">>]

users ==
    [name |-> "users", kind |-> "BatchSource",
     timestamp_field |-> "timestamp", schema |-> <<>>]

transactions_batch ==
    [name |-> "transactions_batch", kind |-> "BatchSource",
     timestamp_field |-> "timestamp", schema |-> <<>>]

transactions_stream ==
    [name |-> "transactions_stream", kind |-> "StreamSource",
     timestamp_field |-> "timestamp",
     schema |-> <<"user_id", "timestamp", "amount">>]

transaction_request ==
    [name |-> "transaction_request", kind |-> "RequestSource",
     timestamp_field |-> "", schema |-> <<"amount">>]

Aggregation(f, c, w) == [function |-> f, column |-> c, time_window |-> w]

\* The batch view with its one-day mean declared over two days.
user_transaction_metrics_view_2d ==
    [kind |-> "BatchView",
     sources |-> <<"transactions_batch">>,
     entities |-> <<"user">>,
     aggregation_interval |-> Interval(Days(1)),
     aggregations |-> << Aggregation("mean", "amount", Days(2)),
                         Aggregation("mean", "amount", Days(3)),
                         Aggregation("mean", "amount", Days(7)),
                         Aggregation("count", "amount", Days(1)),
                         Aggregation("count", "amount", Days(3)),
                         Aggregation("count", "amount", Days(7)) >>,
     schema |-> <<"user_id", "timestamp", "amount">>]

user_transaction_metrics_view ==
    [kind |-> "BatchView",
     sources |-> <<"transactions_batch">>,
     entities |-> <<"user">>,
     aggregation_interval |-> Interval(Days(1)),
     aggregations |-> << Aggregation("mean", "amount", Days(1)),
                         Aggregation("mean", "amount", Days(3)),
                         Aggregation("mean", "amount", Days(7)),
                         Aggregation("count", "amount", Days(1)),
                         Aggregation("count", "amount", Days(3)),
                         Aggregation("count", "amount", Days(7)) >>,
     schema |-> <<"user_id", "timestamp", "amount">>]

\* The stream view with its second aggregation a copy of the first.
user_transaction_amount_totals_view_dup ==
    [kind |-> "StreamView",
     sources |-> <<"transactions_stream">>,
     entities |-> <<"user">>,
     aggregation_interval |-> NoInterval,
     aggregations |-> << Aggregation("sum", "amount", Minutes(1)),
                         Aggregation("sum", "amount", Minutes(1)),
                         Aggregation("sum", "amount", Days(30)) >>,
     schema |-> <<"user_id", "timestamp", "amount">>]

user_transaction_amount_totals_view ==
    [kind |-> "StreamView",
     sources |-> <<"transactions_stream">>,
     entities |-> <<"user">>,
     aggregation_interval |-> NoInterval,
     aggregations |-> << Aggregation("sum", "amount", Minutes(1)),
                         Aggregation("sum", "amount", Hours(1)),
                         Aggregation("sum", "amount", Days(30)) >>,
     schema |-> <<"user_id", "timestamp", "amount">>]

user_credit_card_issuer_view ==
    [kind |-> "BatchView",
     sources |-> <<"users">>,
     entities |-> <<"user">>,
     aggregation_interval |-> NoInterval,
     aggregations |-> <<>>,
     schema |-> <<"user_id", "signup_timestamp", "credit_card_issuer">>]

transaction_amount_is_higher_than_average_view ==
    [kind |-> "OnDemandView",
     sources |-> <<"transaction_request", "user_transaction_metrics">>,
     entities |-> <<>>,
     aggregation_interval |-> NoInterval,
     aggregations |-> <<>>,
     schema |-> <<"transaction_amount_is_higher_than_average">>]

fraud_detection_feature_service ==
    [name |-> "fraud_detection_feature_service",
     features |-> <<"user_transaction_metrics">>]

\* The v2 service with its last feature left out of the list.
fraud_detection_feature_service_v2_short ==
    [name |-> "fraud_detection_feature_service:v2",
     features |-> <<"user_transaction_amount_totals", "user_transaction_metrics",
                    "transaction_amount_is_higher_than_average">>]

fraud_detection_feature_service_v2 ==
    [name |-> "fraud_detection_feature_service:v2",
     features |-> <<"user_transaction_amount_totals", "user_transaction_metrics",
                    "transaction_amount_is_higher_than_average",
                    "user_credit_card_issuer">>]

fraud_detection_feature_service_streaming ==
    [name |-> "fraud_detection_feature_service_streaming",
     features |-> <<"user_transaction_amount_totals">>]

Range(s) == {s[i] : i \in 1..Len(s)}

\* The objects by the Python identifier that holds them.
Entities == [n \in {"user"} |-> user]

DataSources ==
    [n \in {"users", "transactions_batch", "transactions_stream", "transaction_request"} |->
        CASE n = "users" -> users
          [] n = "transactions_batch" -> transactions_batch
          [] n = "transactions_stream" -> transactions_stream
          [] n = "transaction_request" -> transaction_request]

FeatureViews ==
    [n \in {"user_transaction_metrics", "user_transaction_amount_totals",
            "user_credit_card_issuer", "transaction_amount_is_higher_than_average"} |->
        CASE n = "user_transaction_metrics" -> user_transaction_metrics_view
          [] n = "user_transaction_amount_totals" -> user_transaction_amount_totals_view
          [] n = "user_credit_card_issuer" -> user_credit_card_issuer_view
          [] n = "transaction_amount_is_higher_than_average" ->
                 transaction_amount_is_higher_than_average_view]

FeatureServices ==
    [n \in {"fraud_detection_feature_service", "fraud_detection_feature_service_v2",
            "fraud_detection_feature_service_streaming"} |->
        CASE n = "fraud_detection_feature_service" -> fraud_detection_feature_service
          [] n = "fraud_detection_feature_service_v2" -> fraud_detection_feature_service_v2
          [] n = "fraud_detection_feature_service_streaming" ->
                 fraud_detection_feature_service_streaming]

\* ---------------------------------------------------------------- modules

Modules ==
    {"entities", "data_sources.users", "data_sources.transactions_batch",
     "data_sources.transactions_stream", "features.user_transaction_metrics",
     "features.user_transaction_amount_totals", "features.user_credit_card_issuer",
     "features.transaction_amount_is_higher_than_average",
     "feature_services.fraud_detection_feature_service"}

\* The `from <module> import <object>` lines of each module.
ModuleImports(m) ==
    CASE m = "features.user_transaction_metrics" ->
             {"data_sources.transactions_batch", "entities"}
      [] m = "features.user_transaction_amount_totals" ->
             {"data_sources.transactions_stream", "entities"}
      [] m = "features.user_credit_card_issuer" ->
             {"entities", "data_sources.users"}
      [] m = "features.transaction_amount_is_higher_than_average" ->
             {"features.user_transaction_metrics"}
      [] m = "feature_services.fraud_detection_feature_service" ->
             {"features.user_transaction_amount_totals",
              "features.user_transaction_metrics",
              "features.transaction_amount_is_higher_than_average",
              "features.user_credit_card_issuer"}
      [] OTHER -> {}

\* The objects each module's top-level statements create.
ModuleDefines(m) ==
    CASE m = "entities" -> {"user"}
      [] m = "data_sources.users" -> {"users"}
      [] m = "data_sources.transactions_batch" -> {"transactions_batch"}
      [] m = "data_sources.transactions_stream" -> {"transactions_stream"}
      [] m = "features.user_transaction_metrics" -> {"user_transaction_metrics"}
      [] m = "features.user_transaction_amount_totals" -> {"user_transaction_amount_totals"}
      [] m = "features.user_credit_card_issuer" -> {"user_credit_card_issuer"}
      [] m = "features.transaction_amount_is_higher_than_average" ->
             {"transaction_request", "transaction_amount_is_higher_than_average"}
      [] m = "feature_services.fraud_detection_feature_service" ->
             {"fraud_detection_feature_service", "fraud_detection_feature_service_v2",
              "fraud_detection_feature_service_streaming"}

\* Importing a module runs the imports at its head first.
RECURSIVE ImportClosure(_)
ImportClosure(m) ==
    {m} \cup UNION {ImportClosure(d) : d \in ModuleImports(m)}

AllObjects == UNION {ModuleDefines(m) : m \in Modules}

Applied == registry = AllObjects

EmptyDict == [k \in {} |-> FALSE]
NotRun == [raised |-> "not_run", ret |-> EmptyDict]

\* ---------------------------------------------------------- Python values

\* None, a float, the float nan, an int, or a str (its characters).
PyNone == [tag |-> "None", num |-> 0, chars |-> <<>>]
PyNaN == [tag |-> "nan", num |-> 0, chars |-> <<>>]
PyFloat(n) == [tag |-> "float", num |-> n, chars |-> <<>>]
PyInt(n) == [tag |-> "int", num |-> n, chars |-> <<>>]
PyStr(cs) == [tag |-> "str", num |-> 0, chars |-> cs]

\* bool(x): None, zero and the empty string are falsy; nan is truthy.
Truthy(x) ==
    CASE x.tag = "None" -> FALSE
      [] x.tag = "nan" -> TRUE
      [] x.tag \in {"float", "int"} -> x.num # 0
      [] x.tag = "str" -> Len(x.chars) > 0

\* `a or b`
PyOr(a, b) == IF Truthy(a) THEN a ELSE b

\* `a > b` on numbers: every comparison with nan is False.
PyGt(a, b) ==
    IF a.tag = "nan" \/ b.tag = "nan" THEN FALSE ELSE a.num > b.num

DigitChar(d) ==
    CASE d = 0 -> "0" [] d = 1 -> "1" [] d = 2 -> "2" [] d = 3 -> "3" [] d = 4 -> "4"
      [] d = 5 -> "5" [] d = 6 -> "6" [] d = 7 -> "7" [] d = 8 -> "8" [] d = 9 -> "9"

RECURSIVE Digits(_)
Digits(n) == IF n < 10 THEN <<DigitChar(n)>> ELSE Append(Digits(n \div 10), DigitChar(n % 10))

\* str(x), as a sequence of characters.
Str(x) ==
    CASE x.tag = "str" -> x.chars
      [] x.tag = "None" -> <<"N", "o", "n", "e">>
      [] x.tag = "nan" -> <<"n", "a", "n">>
      [] x.tag \in {"int", "float"} ->
             IF x.num < 0 THEN <<"-">> \o Digits(-x.num) ELSE Digits(x.num)

\* ------------------------------------------------ synthesized field names

\* A timedelta in the largest unit that divides it.
DurationStr(td) ==
    CASE td % Days(1) = 0 -> ToString(td \div Days(1)) \o "d"
      [] td % Hours(1) = 0 /\ td % Days(1) # 0 -> ToString(td \div Hours(1)) \o "h"
      [] td % Minutes(1) = 0 /\ td % Hours(1) # 0 -> ToString(td \div Minutes(1)) \o "m"
      [] OTHER -> ToString(td) \o "s"

IntervalStr(iv) == IF iv = NoInterval THEN "continuous" ELSE DurationStr(iv[1])

\* The feature an aggregation contributes to its view: <column>_<function>_
\* <window>_<interval>, the shape of the name the on-demand view reads.
FieldName(agg, iv) ==
    agg.column \o "_" \o agg.function \o "_" \o DurationStr(agg.time_window)
        \o "_" \o IntervalStr(iv)

AggregatedFields(view) ==
    {FieldName(view.aggregations[i], view.aggregation_interval) :
        i \in 1..Len(view.aggregations)}

\* ------------------------------------------------------ on-demand transform

Raise(e) == [raised |-> e, ret |-> EmptyDict]
Return(v) == [raised |-> "none", ret |-> v]

\* The keys the on-demand transform subscripts its arguments with, and the key of
\* the dict it returns.
UpstreamField == "amount_mean_1d_1d"
RequestField == "amount"
ResultKey == "transaction_amount_is_higher_than_average"

\* The on-demand transform comparing with >= instead of >.
transaction_amount_is_higher_than_average_ge(request, metrics) ==
    IF UpstreamField \notin DOMAIN metrics THEN Raise("KeyError")
    ELSE LET amount_mean == PyOr(metrics[UpstreamField], PyInt(0)) IN
         IF RequestField \notin DOMAIN request THEN Raise("KeyError")
         ELSE Return([k \in {ResultKey} |->
                         PyGt(request[RequestField], amount_mean)
                             \/ request[RequestField].num = amount_mean.num])

\* The on-demand transform taking its default from a module-level variable that
\* holds the amount of an earlier request.
transaction_amount_is_higher_than_average_stale(request, metrics) ==
    IF UpstreamField \notin DOMAIN metrics THEN Raise("KeyError")
    ELSE LET last == IF log = EmptyBag THEN PyInt(0)
                     ELSE (CHOOSE c \in BagToSet(log) : TRUE).request[RequestField]
             amount_mean == PyOr(metrics[UpstreamField], last) IN
         IF RequestField \notin DOMAIN request THEN Raise("KeyError")
         ELSE Return([k \in {ResultKey} |-> PyGt(request[RequestField], amount_mean)])

\* def transaction_amount_is_higher_than_average(transaction_request,
\*                                               user_transaction_metrics)
transaction_amount_is_higher_than_average(request, metrics) ==
    IF UpstreamField \notin DOMAIN metrics THEN Raise("KeyError")
    ELSE LET amount_mean == PyOr(metrics[UpstreamField], PyInt(0)) IN
         IF RequestField \notin DOMAIN request THEN Raise("KeyError")
         ELSE Return([k \in {ResultKey} |-> PyGt(request[RequestField], amount_mean)])

\* Request payloads: the RequestSource schema's fields, each a float.
Amounts == {PyFloat(0), PyFloat(100)}
Requests == [Range(transaction_request.schema) -> Amounts]

\* Upstream records: the features user_transaction_metrics serves, each None
\* when no aggregate exists; the record may also come without a key.
MeanValues == {PyNone, PyFloat(0), PyFloat(150), PyNaN}
UpstreamKeys == AggregatedFields(user_transaction_metrics_view)
FullUpstream(v) ==
    [k \in UpstreamKeys |-> IF k = UpstreamField THEN v ELSE PyNone]
Restrict(f, ks) == [k \in ks |-> f[k]]
Upstreams ==
    {FullUpstream(v) : v \in MeanValues}
        \cup {Restrict(FullUpstream(PyNone), UpstreamKeys \ {UpstreamField})}

\* ------------------------------------------------------------- DataFrames

\* A DataFrame: its column labels and its rows, each a function on the labels.
Frame(cols, rows) == [columns |-> cols, rows |-> rows]
EmptyFrame == Frame({}, <<>>)
NotRunDf == [raised |-> "not_run", ret |-> EmptyFrame]
RaiseDf(e) == [raised |-> e, ret |-> EmptyFrame]

\* df[c]: one column as a series.
Column(df, c) == [i \in 1..Len(df.rows) |-> df.rows[i][c]]

\* df[c] = series: the frame object itself gets (or overwrites) column c.
SetColumn(df, c, series) ==
    Frame(df.columns \cup {c},
          [i \in 1..Len(df.rows) |->
              [k \in df.columns \cup {c} |-> IF k = c THEN series[i] ELSE df.rows[i][k]]])

\* df[[c1, c2, ...]]: a new frame of the listed columns; KeyError if one is missing.
Select(df, cols) ==
    IF Range(cols) \subseteq df.columns
    THEN Return(Frame(Range(cols),
                      [i \in 1..Len(df.rows) |-> [k \in Range(cols) |-> df.rows[i][k]]]))
    ELSE RaiseDf("KeyError")

\* ------------------------------------------------------- batch transforms

\* The lambda of user_credit_card_issuer; str(x)[0] raises on the empty string.
IssuerLambda(x) ==
    IF Len(Str(x)) = 0 THEN "IndexError"
    ELSE IF Str(x)[1] = "4" THEN "Visa"
    ELSE IF Str(x)[1] = "5" THEN "MasterCard"
    ELSE IF Str(x)[1] = "6" THEN "Discover"
    ELSE "other"

\* def user_credit_card_issuer(users): the frame object after the call, and the
\* call's outcome.
user_credit_card_issuer(df) ==
    IF "cc_num" \notin df.columns THEN [df |-> df, out |-> RaiseDf("KeyError")]
    ELSE LET applied == [i \in 1..Len(df.rows) |-> IssuerLambda(Column(df, "cc_num")[i])] IN
         IF \E i \in 1..Len(df.rows) : applied[i] = "IndexError"
         THEN [df |-> df, out |-> RaiseDf("IndexError")]
         ELSE LET assigned == SetColumn(df, "credit_card_issuer", applied) IN
              [df |-> assigned,
               out |-> Select(assigned, <<"user_id", "signup_timestamp", "credit_card_issuer">>)]

\* The batch transform returning the frame it was given, unprojected.
user_transaction_metrics_unprojected(df) ==
    [df |-> df, out |-> Return(df)]

\* def user_transaction_metrics(transactions)
user_transaction_metrics(df) ==
    [df |-> df, out |-> Select(df, <<"user_id", "timestamp", "amount">>)]

\* def user_transaction_amount_totals(transactions)
user_transaction_amount_totals(df) ==
    [df |-> df, out |-> Select(df, <<"user_id", "timestamp", "amount">>)]

\* ------------------------------------------------------------ input data

Chars4111 == <<"4","1","1","1","1","1","1","1","1","1","1","1","1","1","1","1">>
Chars5500 == <<"5","5","0","0","0","0","0","0","0","0","0","0","0","0","0","4">>
Chars6011 == <<"6","0","1","1","0","0","0","0","0","0","0","0","0","0","0","0">>
Chars9999 == <<"9","9","9","9","9","9","9","9","9","9","9","9","9","9","9","9">>

\* cc_num values of the users table: card numbers as text, one stored as an
\* integer, and an empty text.
CcNums ==
    {PyStr(Chars4111), PyStr(Chars5500), PyStr(Chars6011), PyStr(Chars9999),
     PyInt(4242), PyStr(<<>>)}

\* Rows of the users table: the columns the transform reads and the source's
\* declared timestamp field.
UserRows ==
    {[user_id |-> "u1", signup_timestamp |-> 1, timestamp |-> 2, cc_num |-> c] :
        c \in CcNums}
UsersColumns == {"user_id", "signup_timestamp", "timestamp", "cc_num"}

\* Rows of the transactions table: the stream source's schema and one more column.
TransactionRows ==
    {[user_id |-> "u1", timestamp |-> 2, amount |-> PyFloat(100), merchant |-> "m1"]}
TransactionsColumns == {"user_id", "timestamp", "amount", "merchant"}

Frames(cols, rowset) ==
    {Frame(cols, rows) : rows \in UNION {[1..n -> rowset] : n \in 0..MaxRows}}

Init ==
    /\ registry = {}
    /\ usersDf = EmptyFrame
    /\ issuerOut = NotRunDf
    /\ txDf = EmptyFrame
    /\ metricsOut = NotRunDf
    /\ totalsOut = NotRunDf
    /\ log = EmptyBag

\* The interpreter imports module m: m and everything it imports are executed,
\* and each creates its descriptor objects.
Import(m) ==
    /\ ~(ModuleDefines(m) \subseteq registry)
    /\ registry' = registry \cup UNION {ModuleDefines(d) : d \in ImportClosure(m)}
    /\ UNCHANGED <<usersDf, issuerOut, txDf, metricsOut, totalsOut, log>>

\* The platform serves one online request: it calls the on-demand transform with
\* the request payload and the upstream record; nothing else is touched.
Evaluate(request, metrics) ==
    /\ Applied
    /\ BagCardinality(log) < MaxCalls
    /\ log' = log (+) SetToBag({[request |-> request, metrics |-> metrics,
                 out |-> transaction_amount_is_higher_than_average(request, metrics)]})
    /\ UNCHANGED <<registry, usersDf, issuerOut, txDf, metricsOut, totalsOut>>

\* The materialization job of user_credit_card_issuer reads the users source
\* into a DataFrame.
ReadUsers(df) ==
    /\ Applied
    /\ usersDf = EmptyFrame
    /\ usersDf' = df
    /\ issuerOut' = NotRunDf
    /\ UNCHANGED <<registry, txDf, metricsOut, totalsOut, log>>

\* The job calls user_credit_card_issuer on the frame it holds.
RunIssuer ==
    /\ Applied
    /\ usersDf # EmptyFrame
    /\ usersDf' = user_credit_card_issuer(usersDf).df
    /\ issuerOut' = user_credit_card_issuer(usersDf).out
    /\ UNCHANGED <<registry, txDf, metricsOut, totalsOut, log>>

\* The materialization job of the transaction views reads the transactions
\* table into a DataFrame.
ReadTransactions(df) ==
    /\ Applied
    /\ txDf = EmptyFrame
    /\ txDf' = df
    /\ metricsOut' = NotRunDf
    /\ totalsOut' = NotRunDf
    /\ UNCHANGED <<registry, usersDf, issuerOut, log>>

RunMetrics ==
    /\ Applied
    /\ txDf # EmptyFrame
    /\ txDf' = user_transaction_metrics(txDf).df
    /\ metricsOut' = user_transaction_metrics(txDf).out
    /\ UNCHANGED <<registry, usersDf, issuerOut, totalsOut, log>>

RunTotals ==
    /\ Applied
    /\ txDf # EmptyFrame
    /\ txDf' = user_transaction_amount_totals(txDf).df
    /\ totalsOut' = user_transaction_amount_totals(txDf).out
    /\ UNCHANGED <<registry, usersDf, issuerOut, metricsOut, log>>

Next ==
    \/ \E m \in Modules : Import(m)
    \/ \E df \in Frames(UsersColumns, UserRows) : ReadUsers(df)
    \/ RunIssuer
    \/ \E df \in Frames(TransactionsColumns, TransactionRows) : ReadTransactions(df)
    \/ RunMetrics
    \/ RunTotals
    \/ \E request \in Requests, metrics \in Upstreams : Evaluate(request, metrics)

Spec == Init /\ [][Next]_vars

\* ------------------------------------------------------------------ claims

Calls == BagToSet(log)
Returned(o) == o.raised = "none"
Ran(o) == o.raised # "not_run"

\* What a feature view, source or service refers to, by identifier.
Refs(n) ==
    IF n \in DOMAIN FeatureServices THEN Range(FeatureServices[n].features)
    ELSE IF n \in DOMAIN FeatureViews
         THEN Range(FeatureViews[n].sources) \cup Range(FeatureViews[n].entities)
    ELSE {}

RECURSIVE Reach(_)
Reach(n) == {n} \cup UNION {Reach(r) : r \in Refs(n)}

Defined(n) ==
    /\ n \in registry
    /\ n \in DOMAIN Entities \cup DOMAIN DataSources \cup DOMAIN FeatureViews
               \cup DOMAIN FeatureServices

\* Substitute 0 only for None.
ExplicitDefault(v) == IF v = PyNone THEN PyInt(0) ELSE v

FirstCharIssuer(x) ==
    IF Len(Str(x)) > 0 /\ Str(x)[1] = "4" THEN "Visa"
    ELSE IF Len(Str(x)) > 0 /\ Str(x)[1] = "5" THEN "MasterCard"
    ELSE IF Len(Str(x)) > 0 /\ Str(x)[1] = "6" THEN "Discover"
    ELSE "other"

\* C2: every run of user_credit_card_issuer returns one row per input row, its
\* credit_card_issuer given by the first character of str(cc_num): 4 Visa,
\* 5 MasterCard, 6 Discover, anything else "other".
C2_IssuerForEveryRow ==
    Ran(issuerOut) =>
        /\ Returned(issuerOut)
        /\ Len(issuerOut.ret.rows) = Len(usersDf.rows)
        /\ \A i \in 1..Len(usersDf.rows) :
               issuerOut.ret.rows[i]["credit_card_issuer"] =
                   FirstCharIssuer(usersDf.rows[i]["cc_num"])

\* C3: fraud_detection_feature_service_v2 is named
\* "fraud_detection_feature_service:v2" and lists exactly the four feature views;
\* everything a registered feature service reaches (views, their sources and
\* entities) is a registered descriptor.
C3_ServiceResolves ==
    /\ "fraud_detection_feature_service_v2" \in registry =>
           /\ FeatureServices["fraud_detection_feature_service_v2"].name =
                  "fraud_detection_feature_service:v2"
           /\ Len(FeatureServices["fraud_detection_feature_service_v2"].features) = 4
           /\ Range(FeatureServices["fraud_detection_feature_service_v2"].features) =
                  {"user_transaction_amount_totals", "user_transaction_metrics",
                   "transaction_amount_is_higher_than_average", "user_credit_card_issuer"}
    /\ \A s \in registry \cap DOMAIN FeatureServices :
           /\ \A f \in Range(FeatureServices[s].features) :
                  f \in registry \cap DOMAIN FeatureViews
           /\ \A n \in Reach(s) : Defined(n)

\* C3 witness: the three services are registered.
C3_Witness == DOMAIN FeatureServices \subseteq registry

\* The join keys of view v's entities and the timestamp fields of its sources.
RequiredColumns(v) ==
    UNION {Range(Entities[e].join_keys) : e \in Range(FeatureViews[v].entities)}
        \cup {DataSources[d].timestamp_field : d \in Range(FeatureViews[v].sources)}

\* C4: the columns a batch/stream transform returns include the entity join key
\* and the timestamp_field of the source the view reads.
C4_KeyAndEventTime ==
    /\ Returned(issuerOut) =>
           RequiredColumns("user_credit_card_issuer") \subseteq issuerOut.ret.columns
    /\ Returned(metricsOut) =>
           RequiredColumns("user_transaction_metrics") \subseteq metricsOut.ret.columns
    /\ Returned(totalsOut) =>
           RequiredColumns("user_transaction_amount_totals") \subseteq totalsOut.ret.columns

\* C5: in every registered aggregated view, two declared aggregations get the
\* same field name exactly when they are the same triple, so there are as many
\* synthesized fields as declared aggregations (six and three).
C5_FieldNamesUnique ==
    \A v \in registry \cap DOMAIN FeatureViews :
        LET view == FeatureViews[v] IN
        /\ \A i, j \in 1..Len(view.aggregations) :
               (FieldName(view.aggregations[i], view.aggregation_interval) =
                FieldName(view.aggregations[j], view.aggregation_interval))
                   <=> (i = j)
        /\ Cardinality(AggregatedFields(view)) = Len(view.aggregations)
        /\ v = "user_transaction_metrics" => Cardinality(AggregatedFields(view)) = 6
        /\ v = "user_transaction_amount_totals" => Cardinality(AggregatedFields(view)) = 3

\* C5 witness: both aggregated views are registered.
C5_Witness ==
    {"user_transaction_metrics", "user_transaction_amount_totals"} \subseteq registry

\* C6: whenever a transform returns, the columns (keys) of what it returns are
\* the field names of the schema its decorator declares.
C6_SchemaMatchesReturn ==
    /\ Returned(issuerOut) =>
           issuerOut.ret.columns = Range(FeatureViews["user_credit_card_issuer"].schema)
    /\ Returned(metricsOut) =>
           metricsOut.ret.columns = Range(FeatureViews["user_transaction_metrics"].schema)
    /\ Returned(totalsOut) =>
           totalsOut.ret.columns =
               Range(FeatureViews["user_transaction_amount_totals"].schema)
    /\ \A c \in Calls :
           Returned(c.out) =>
               DOMAIN c.out.ret =
                   Range(FeatureViews["transaction_amount_is_higher_than_average"].schema)

\* C6 witness: all four transforms have returned, the batch ones on non-empty frames.
C6_Witness ==
    /\ Returned(issuerOut) /\ Len(issuerOut.ret.rows) > 0
    /\ Returned(metricsOut) /\ Len(metricsOut.ret.rows) > 0
    /\ Returned(totalsOut) /\ Len(totalsOut.ret.rows) > 0
    /\ \E c \in Calls : Returned(c.out)

\* The upstream record supplies no mean: key missing or value None.
Absent(metrics) ==
    UpstreamField \notin DOMAIN metrics \/ metrics[UpstreamField] = PyNone

\* C7: a call whose upstream record supplies no amount_mean_1d_1d (the value is
\* None or the key is missing) completes with the boolean amount > 0.
C7_AbsentNeverFails ==
    \A c \in Calls :
        Absent(c.metrics) =>
            /\ Returned(c.out)
            /\ c.out.ret[ResultKey] = PyGt(c.request[RequestField], PyInt(0))

C9_NoSideEffects ==
    [][/\ RunIssuer => (usersDf' = usersDf /\ (Ran(issuerOut) => issuerOut' = issuerOut))
       /\ RunMetrics => (txDf' = txDf /\ (Ran(metricsOut) => metricsOut' = metricsOut))
       /\ RunTotals => (txDf' = txDf /\ (Ran(totalsOut) => totalsOut' = totalsOut))]_vars

\* C10: the on-demand view lists both sources it reads; the request field it
\* reads is in the RequestSource schema, the upstream field it reads is the name
\* synthesized for user_transaction_metrics' mean of amount over 1 day; so a
\* call given exactly the declared fields never raises KeyError.
C10_ReadsAreProvided ==
    /\ "transaction_amount_is_higher_than_average" \in registry =>
           LET view == FeatureViews["transaction_amount_is_higher_than_average"]
               upstream == FeatureViews["user_transaction_metrics"] IN
           /\ {"transaction_request", "user_transaction_metrics"} \subseteq Range(view.sources)
           /\ Range(view.sources) \subseteq registry
           /\ RequestField \in Range(DataSources["transaction_request"].schema)
           /\ UpstreamField \in AggregatedFields(upstream)
           /\ UpstreamField =
                  FieldName(Aggregation("mean", "amount", Days(1)), upstream.aggregation_interval)
           /\ Aggregation("mean", "amount", Days(1)) \in Range(upstream.aggregations)
    /\ \A c \in Calls :
           (/\ DOMAIN c.request = Range(DataSources["transaction_request"].schema)
            /\ DOMAIN c.metrics = AggregatedFields(FeatureViews["user_transaction_metrics"]))
               => c.out.raised # "KeyError"

\* C10 witness: a call given every declared field has returned.
C10_Witness ==
    \E c \in Calls :
        /\ DOMAIN c.metrics = AggregatedFields(FeatureViews["user_transaction_metrics"])
        /\ c.metrics[UpstreamField] = PyFloat(150)
        /\ Returned(c.out)
====
